---- MODULE Spec2Model ----
(***************************************************************************)
(* pasta: constant inlining (pasta/augment/inline.py) and the printer of   *)
(* annotated syntax trees (pasta/base/codegen.py).                         *)
(*                                                                         *)
(* The module holds four state machines over disjoint groups of variables: *)
(*   SpecInline  inline_name(t, name)                                      *)
(*   SpecPrint   to_str(tree): Printer.visit and Printer.attr              *)
(*   SpecIndent  to_str(tree): choice of the default indentation           *)
(*   SpecFStr    Printer.visit_JoinedStr: the synthesized template         *)
(***************************************************************************)
EXTENDS Integers, Sequences, FiniteSets, TLC

VARIABLES
  \* ---- inline_name ----
  tree,      \* the syntax tree t: a sequence of nodes, a node's identity is its index, the Module is 1
  tree0,     \* the tree as it was when inline_name was called
  name,      \* the name to inline
  sc,        \* the scope table computed by scope.analyze(t)
  pc,        \* position in inline_name: "start", "replace", "done"
  idx,       \* index of the next read in the loop of line 56
  err,       \* the exception inline_name raised, NoError if none
  copies,    \* the roots of the deep copies made so far, in order
  \* ---- to_str: Printer.visit, Printer.attr ----
  ptree,     \* the printed tree: ptree[n] is the parent of node n, 0 for the root
  pstore,    \* the formatting store (__pasta__) of each node
  plive,     \* each node's live value of the field n, <<>> when the node has no such field
  stack,     \* the visits in progress, innermost last: [node, at, k]
  info,      \* each node's _printer_info: [has, flags]
  code,      \* Printer._code, a sequence of tokens
  result,    \* "idle", "running", "text", or the exception to_str raised
  returned,  \* what to_str returned: <<>> or <<code>>
  calls,     \* number of attr requests made by the visitor methods of the base visitor
  emitted,   \* emitted[n][a]: how often attr appended text for node n, attribute a
  last,      \* the last attr request and what it met
  \* ---- to_str: default indentation ----
  indents,   \* the indent_diff fragment of each node, in the order of astlib.walk
  wi,        \* index of the next node of the walk
  seen,      \* seen_indent_diffs: <<fragment, count>> pairs in insertion order
  ipc,       \* "walk", "printing"
  defaultIndent,  \* the printer's default indent_diff
  setCalls,  \* number of calls of set_default_indent_diff
  \* ---- Printer.visit_JoinedStr ----
  values,    \* node.values
  fi,        \* index of the next value in the loop of line 104
  parts,     \* parts
  fpc,       \* "loop", "done"
  output     \* the text handed to _add_code at line 113

inlineVars == <<tree, tree0, name, sc, pc, idx, err, copies>>
printVars  == <<ptree, pstore, plive, stack, info, code, result, returned, calls, emitted, last>>
indentVars == <<indents, wi, seen, ipc, defaultIndent, setCalls>>
fstrVars   == <<values, fi, parts, fpc, output>>
vars       == <<inlineVars, printVars, indentVars, fstrVars>>

(***************************************************************************)
(* Syntax trees                                                            *)
(***************************************************************************)
Range(s) == {s[i] : i \in DOMAIN s}

Blank ==
  [kind |-> "", id |-> "", ctx |-> "", n |-> 0,
   body |-> <<>>, targets |-> <<>>, value |-> <<>>, test |-> <<>>,
   elts |-> <<>>, left |-> <<>>, right |-> <<>>]

Module(body)          == [Blank EXCEPT !.kind = "Module", !.body = body]
Assign(targets, value) == [Blank EXCEPT !.kind = "Assign", !.targets = targets, !.value = <<value>>]
If(test, body)        == [Blank EXCEPT !.kind = "If", !.test = <<test>>, !.body = body]
FunctionDef(id, body) == [Blank EXCEPT !.kind = "FunctionDef", !.id = id, !.body = body]
Tuple(elts, ctx)      == [Blank EXCEPT !.kind = "Tuple", !.elts = elts, !.ctx = ctx]
Name(id, ctx)         == [Blank EXCEPT !.kind = "Name", !.id = id, !.ctx = ctx]
Num(n)                == [Blank EXCEPT !.kind = "Num", !.n = n]
BinOp(left, right)    == [Blank EXCEPT !.kind = "BinOp", !.left = <<left>>, !.right = <<right>>]

\* The child fields of each node kind, in the order of the kind's _fields.
\* A single-valued field is held as a sequence of length one.
NodeFields(kind) ==
  CASE kind = "Module"      -> <<"body">>
    [] kind = "Assign"      -> <<"targets", "value">>
    [] kind = "If"          -> <<"test", "body">>
    [] kind = "FunctionDef" -> <<"body">>
    [] kind = "Tuple"       -> <<"elts">>
    [] kind = "BinOp"       -> <<"left", "right">>
    [] OTHER                -> <<>>

ListFields == {"body", "targets", "elts"}

RECURSIVE Flatten(_, _)
Flatten(node, fs) ==
  IF fs = <<>> THEN <<>> ELSE node[Head(fs)] \o Flatten(node, Tail(fs))

Children(node) == Flatten(node, NodeFields(node.kind))

RECURSIVE Walk(_, _)
RECURSIVE WalkAll(_, _)
\* The nodes of the subtree rooted at n, depth first, fields in order.
Walk(t, n) == <<n>> \o WalkAll(t, Children(t[n]))
WalkAll(t, s) ==
  IF s = <<>> THEN <<>> ELSE Walk(t, Head(s)) \o WalkAll(t, Tail(s))

Pos(s, x) == CHOOSE i \in DOMAIN s : s[i] = x /\ \A j \in 1..(i - 1) : s[j] # x

(***************************************************************************)
(* The modules inline_name is called on: a Module of up to MaxStmts        *)
(* statements, each of one of the shapes below. Stmt(shape, b) is the      *)
(* statement's nodes, the statement itself at index b + 1.                 *)
(***************************************************************************)
MaxStmts == 3

Shapes ==
  {"decl", "dup", "chain", "chain3", "tuple", "ifdecl", "iftuple",
   "func", "use", "use2", "self", "selfchain", "other"}

Stmt(shape, b) ==
  CASE shape = "decl" ->        \* x = 1
         <<Assign(<<b + 2>>, b + 3), Name("x", "Store"), Num(1)>>
    [] shape = "dup" ->         \* x = x = 1
         <<Assign(<<b + 2, b + 3>>, b + 4), Name("x", "Store"),
           Name("x", "Store"), Num(1)>>
    [] shape = "chain" ->       \* x = y = 1
         <<Assign(<<b + 2, b + 3>>, b + 4), Name("x", "Store"),
           Name("y", "Store"), Num(1)>>
    [] shape = "chain3" ->      \* z = x = y = 1 + 2
         <<Assign(<<b + 2, b + 3, b + 4>>, b + 5), Name("z", "Store"),
           Name("x", "Store"), Name("y", "Store"),
           BinOp(b + 6, b + 7), Num(1), Num(2)>>
    [] shape = "tuple" ->       \* x, y = 1
         <<Assign(<<b + 2>>, b + 5), Tuple(<<b + 3, b + 4>>, "Store"),
           Name("x", "Store"), Name("y", "Store"), Num(1)>>
    [] shape = "ifdecl" ->      \* if c: x = 1
         <<If(b + 2, <<b + 3>>), Name("c", "Load"),
           Assign(<<b + 4>>, b + 5), Name("x", "Store"), Num(1)>>
    [] shape = "iftuple" ->     \* if c: x, y = 1
         <<If(b + 2, <<b + 3>>), Name("c", "Load"),
           Assign(<<b + 4>>, b + 7), Tuple(<<b + 5, b + 6>>, "Store"),
           Name("x", "Store"), Name("y", "Store"), Num(1)>>
    [] shape = "func" ->        \* def x(): ...
         <<FunctionDef("x", <<>>)>>
    [] shape = "use" ->         \* a = x
         <<Assign(<<b + 2>>, b + 3), Name("a", "Store"), Name("x", "Load")>>
    [] shape = "use2" ->        \* a = x + (y + x)
         <<Assign(<<b + 2>>, b + 3), Name("a", "Store"),
           BinOp(b + 4, b + 5), Name("x", "Load"),
           BinOp(b + 6, b + 7), Name("y", "Load"), Name("x", "Load")>>
    [] shape = "self" ->        \* x = x + 1
         <<Assign(<<b + 2>>, b + 3), Name("x", "Store"),
           BinOp(b + 4, b + 5), Name("x", "Load"), Num(1)>>
    [] shape = "selfchain" ->   \* y = x = x + 1
         <<Assign(<<b + 2, b + 3>>, b + 4), Name("y", "Store"),
           Name("x", "Store"), BinOp(b + 5, b + 6), Name("x", "Load"), Num(1)>>
    [] OTHER ->                 \* b = 3
         <<Assign(<<b + 2>>, b + 3), Name("b", "Store"), Num(3)>>

RECURSIVE Stmts(_, _)
\* The nodes of the statements `shapes`, the first at index b + 1.
Stmts(shapes, b) ==
  IF shapes = <<>> THEN <<>>
  ELSE LET s == Stmt(Head(shapes), b)
       IN  s \o Stmts(Tail(shapes), b + Len(s))

RECURSIVE Roots(_, _)
Roots(shapes, b) ==
  IF shapes = <<>> THEN <<>>
  ELSE <<b + 1>> \o Roots(Tail(shapes), b + Len(Stmt(Head(shapes), b)))

Program(shapes) == <<Module(Roots(shapes, 1))>> \o Stmts(shapes, 1)

Programs ==
  {Program(shapes) : shapes \in UNION {[1..k -> Shapes] : k \in 1..MaxStmts}}

Names == {"x", "y"}

(***************************************************************************)
(* scope.analyze: the scope table of the module scope, restricted to one   *)
(* name. The first binding occurrence met is the definition; the Name      *)
(* nodes referring to the name (reads, and later writes) are recorded in   *)
(* reads, in the order the tree is walked.                                 *)
(***************************************************************************)
Mentions(node, nm) ==
  \/ node.kind = "Name" /\ node.id = nm
  \/ node.kind = "FunctionDef" /\ node.id = nm

Binds(node) ==
  \/ node.kind = "Name" /\ node.ctx = "Store"
  \/ node.kind = "FunctionDef"

None == 0

parentOf(t, n) ==
  IF \E p \in DOMAIN t : n \in Range(Children(t[p]))
  THEN CHOOSE p \in DOMAIN t : n \in Range(Children(t[p]))
  ELSE None

analyze(t, nm) ==
  LET refs  == SelectSeq(Walk(t, 1), LAMBDA n : Mentions(t[n], nm))
      binds == SelectSeq(refs, LAMBDA n : Binds(t[n]))
      def   == IF binds = <<>> THEN None ELSE Head(binds)
      entry == [definition |-> def,
                reads |-> SelectSeq(refs, LAMBDA n : n # def /\ t[n].kind = "Name")]
  IN  [names  |-> IF refs = <<>> THEN <<>> ELSE [k \in {nm} |-> entry],
       parent |-> [n \in DOMAIN t |-> parentOf(t, n)]]

(***************************************************************************)
(* copy.deepcopy and the tree-editing primitives of ast_utils              *)
(***************************************************************************)
MapSeq(s, m) == [i \in DOMAIN s |-> m[s[i]]]

Remap(node, m) ==
  [node EXCEPT !.body = MapSeq(@, m), !.targets = MapSeq(@, m),
               !.value = MapSeq(@, m), !.test = MapSeq(@, m),
               !.elts = MapSeq(@, m), !.left = MapSeq(@, m),
               !.right = MapSeq(@, m)]

\* The nodes copy.deepcopy(v) creates: a copy of every node of the subtree
\* of v, the copy of v first; the copies take the next free identities.
deepcopy(t, v) ==
  LET w == Walk(t, v)
      m == [n \in Range(w) |-> Len(t) + Pos(w, n)]
  IN  [i \in 1..Len(w) |-> Remap(t[w[i]], m)]

FieldsWith(t, p, n) ==
  {i \in DOMAIN NodeFields(t[p].kind) : n \in Range(t[p][NodeFields(t[p].kind)[i]])}

Min(S) == CHOOSE x \in S : \A y \in S : x <= y

HasChild(t, p, n) == p \in DOMAIN t /\ FieldsWith(t, p, n) # {}

\* ast_utils.replace_child(parent, node, replace_with)
replace_child(t, p, n, new) ==
  LET f == NodeFields(t[p].kind)[Min(FieldsWith(t, p, n))]
  IN  [t EXCEPT ![p][f][Pos(t[p][f], n)] = new]

Remove(s, x) ==
  LET i == Pos(s, x)
  IN  SubSeq(s, 1, i - 1) \o SubSeq(s, i + 1, Len(s))

ListFieldsWith(t, p, n) ==
  {i \in FieldsWith(t, p, n) : NodeFields(t[p].kind)[i] \in ListFields}

\* ast_utils.remove_child(parent, child)
remove_child(t, p, n) ==
  LET f == NodeFields(t[p].kind)[Min(ListFieldsWith(t, p, n))]
  IN  [t EXCEPT ![p][f] = Remove(@, n)]

(***************************************************************************)
(* inline_name                                                             *)
(***************************************************************************)
NoError == [exc |-> "none", msg |-> "", type |-> ""]

InlineError(msg, type) == [exc |-> "InlineError", msg |-> msg, type |-> type]

KindOf(t, n) == IF n = None THEN "NoneType" ELSE t[n].kind

\* ValidationError with the reassignment check made before the top-level check
ValidationErrorStoreFirst(t, s, nm) ==
  LET name_node   == s.names[nm]
      assign_node == s.parent[name_node.definition]
  IN  IF KindOf(t, name_node.definition) # "Name"
      THEN InlineError("is not a constant; it has type", KindOf(t, name_node.definition))
      ELSE IF KindOf(t, assign_node) # "Assign"
      THEN InlineError("is not declared in an assignment", "")
      ELSE IF \E i \in DOMAIN name_node.reads : t[name_node.reads[i]].ctx = "Store"
      THEN InlineError("is not a constant", "")
      ELSE IF KindOf(t, s.parent[assign_node]) # "Module"
      THEN InlineError("is not a top-level name", "")
      ELSE NoError

\* lines 38-53: the eligibility checks, in the order of the code
ValidationError(t, s, nm) ==
  LET name_node   == s.names[nm]
      assign_node == s.parent[name_node.definition]
  IN  IF KindOf(t, name_node.definition) # "Name"
      THEN InlineError("is not a constant; it has type", KindOf(t, name_node.definition))
      ELSE IF KindOf(t, assign_node) # "Assign"
      THEN InlineError("is not declared in an assignment", "")
      ELSE IF KindOf(t, s.parent[assign_node]) # "Module"
      THEN InlineError("is not a top-level name", "")
      ELSE IF \E i \in DOMAIN name_node.reads : t[name_node.reads[i]].ctx = "Store"
      THEN InlineError("is not a constant", "")
      ELSE NoError

\* ReplaceParent looking every read up under the parent of the first one
ReplaceParentFirst(s, nm, i) == s.parent[s.names[nm].reads[1]]

\* line 57: the parent the i-th read is replaced in
ReplaceParent(s, nm, i) == s.parent[s.names[nm].reads[i]]

\* KeptTargets dropping every Name target, whatever its id
KeptTargetsAnyName(t, targets, nm) ==
  SelectSeq(targets, LAMBDA tgt : ~(t[tgt].kind = "Name"))

\* lines 63-65: the targets kept when the assignment has several
KeptTargets(t, targets, nm) ==
  SelectSeq(targets, LAMBDA tgt : ~(t[tgt].kind = "Name" /\ t[tgt].id = nm))

Reads       == sc.names[name].reads
AssignNode  == sc.parent[sc.names[name].definition]

InlineIdle ==
  /\ tree = <<>> /\ tree0 = <<>> /\ name = "" /\ sc = <<>>
  /\ pc = "idle" /\ idx = 0 /\ err = NoError /\ copies = <<>>

InitInline ==
  /\ tree \in Programs
  /\ tree0 = tree
  /\ name \in Names
  /\ sc = [names |-> <<>>, parent |-> <<>>]
  /\ pc = "start"
  /\ idx = 1
  /\ err = NoError
  /\ copies = <<>>

\* lines 34-53: analyze, look the name up, validate
InlineCall ==
  /\ pc = "start"
  /\ LET s == analyze(tree, name)
     IN  /\ sc' = s
         /\ IF name \notin DOMAIN s.names
            THEN /\ err' = [exc |-> "KeyError", msg |-> "", type |-> ""]
                 /\ pc' = "done"
            ELSE /\ err' = ValidationError(tree, s, name)
                 /\ pc' = IF err' = NoError THEN "replace" ELSE "done"
  /\ UNCHANGED <<tree, tree0, name, idx, copies>>
  /\ UNCHANGED <<printVars, indentVars, fstrVars>>

\* lines 56-57: one iteration of the loop over the reads
ReplaceRead ==
  /\ pc = "replace"
  /\ idx <= Len(Reads)
  /\ LET ref    == Reads[idx]
         value  == tree[AssignNode].value[1]
         p      == ReplaceParent(sc, name, idx)
         copied == tree \o deepcopy(tree, value)
     IN  IF HasChild(tree, p, ref)
         THEN /\ tree' = replace_child(copied, p, ref, Len(tree) + 1)
              /\ copies' = Append(copies, Len(tree) + 1)
              /\ idx' = idx + 1
              /\ UNCHANGED <<pc, err>>
         ELSE /\ err' = [exc |-> "InvalidAstError", msg |-> "", type |-> ""]
              /\ pc' = "done"
              /\ UNCHANGED <<tree, copies, idx>>
  /\ UNCHANGED <<tree0, name, sc>>
  /\ UNCHANGED <<printVars, indentVars, fstrVars>>

\* lines 60-66: remove the declaration
RemoveDecl ==
  /\ pc = "replace"
  /\ idx > Len(Reads)
  /\ tree' = IF Len(tree[AssignNode].targets) = 1
             THEN remove_child(tree, sc.parent[AssignNode], AssignNode)
             ELSE [tree EXCEPT ![AssignNode].targets = KeptTargets(tree, @, name)]
  /\ pc' = "done"
  /\ UNCHANGED <<tree0, name, sc, idx, err, copies>>
  /\ UNCHANGED <<printVars, indentVars, fstrVars>>

NextInline == InlineCall \/ ReplaceRead \/ RemoveDecl

(***************************************************************************)
(* to_str: the Printer                                                     *)
(*                                                                         *)
(* Text is a sequence of tokens. An optional value (None or a value) is    *)
(* the empty sequence or a sequence of length one.                         *)
(***************************************************************************)
Some(v) == <<v>>

\* The printed trees, as parent vectors. A node with children is printed by
\* visit_Module, a leaf by visit_Num.
PrintTrees == {<<0, 1>>, <<0, 1, 1>>, <<0, 1, 2>>}

Kids(pt, n) == SelectSeq([i \in DOMAIN pt |-> i], LAMBDA c : pt[c] = n)

PKind(pt, n) == IF Kids(pt, n) = <<>> THEN "Num" ELSE "Module"

NoStore ==
  [prefix |-> <<>>, suffix |-> <<>>, content |-> <<>>, bom |-> <<>>, n__src |-> <<>>]

\* What a node may carry: its formatting store and its live value of n.
\*   no formatting, n = 1;  no formatting and no field n;
\*   fragments with a snapshot of n that still holds;
\*   fragments with a snapshot of n taken before n was edited;
\*   fragments with no snapshot.
Annotations ==
  {[store |-> NoStore, live |-> Some(1)],
   [store |-> NoStore, live |-> <<>>],
   [store |-> [NoStore EXCEPT !.prefix = Some(<<"@@indent@@">>),
                              !.content = Some(<<"0x1">>), !.n__src = Some(1)],
    live |-> Some(1)],
   [store |-> [NoStore EXCEPT !.content = Some(<<"0x2">>), !.suffix = Some(<<";">>),
                              !.n__src = Some(2)],
    live |-> Some(1)],
   [store |-> [NoStore EXCEPT !.content = Some(<<"0x1">>), !.bom = Some(<<"BOM">>)],
    live |-> Some(1)]}

AttrNames == {"prefix", "suffix", "content"}
Requested == {"prefix", "content"}
DepSets   == {{}, {"n"}}
Defaults  == {<<>>, Some(<<"d">>)}

\* the bound on the attr requests of visitor methods other than prefix and suffix
MaxAttrCalls == 1

\* formatting.get(node, name) and formatting.has(node, name)
fmt_get(st, n, key) == st[n][key]
fmt_has(st, n, key) == st[n][key] # <<>>

\* getattr(node, dep, None), for the one dependency field n
getattr(n, dep) == plive[n]

\* Printer._indent, the indentation of the line being printed
CurrentIndent == "  "

AlNum(tok) == tok \in {"0x1", "0x2", "1", "d", "BOM"}

\* str(...).replace('@@indent@@', self._indent)
ReplaceIndent(text) ==
  [i \in DOMAIN text |-> IF text[i] = "@@indent@@" THEN CurrentIndent ELSE text[i]]

\* lines 57-59
add_code(c, text) == c \o ReplaceIndent(text)

NoInfo    == [has |-> FALSE, flags |-> {}]
FreshInfo == [has |-> TRUE, flags |-> {}]

NoLast ==
  [node |-> 0, attr |-> "", deps |-> {}, default |-> <<>>, sep |-> FALSE,
   passed |-> FALSE, text |-> <<>>]

\* AttrPasses without the test of the flag
AttrPassesNoMemo(n, a) == info[n].has

\* line 172: the request is served
AttrPasses(n, a) == info[n].has /\ a \notin info[n].flags

\* StoredIsStale taking a dependency with no snapshot for a changed one
StoredIsStaleNoHas(n, deps) ==
  deps # {} /\ \E dep \in deps :
    getattr(n, dep) # fmt_get(pstore, n, dep \o "__src")

\* lines 176-179: a dependency's live value differs from its snapshot
StoredIsStale(n, deps) ==
  deps # {} /\ \E dep \in deps :
    /\ fmt_has(pstore, n, dep \o "__src")
    /\ getattr(n, dep) # fmt_get(pstore, n, dep \o "__src")

\* lines 175-182: the text to emit
AttrVal(n, a, deps, default) ==
  LET val  == fmt_get(pstore, n, a)
      val2 == IF val = <<>> \/ StoredIsStale(n, deps) THEN default ELSE val
  IN  IF val2 # <<>> THEN val2[1] ELSE <<>>

\* lines 183-185: a space goes first
NeedsSpace(c, val, sep) ==
  /\ sep
  /\ c # <<>>
  /\ AlNum(c[Len(c)])
  /\ (val = <<>> \/ AlNum(val[1]))

\* lines 182-186: what a served request appends to the code
AttrText(c, n, a, deps, default, sep) ==
  LET val == AttrVal(n, a, deps, default)
  IN  (IF NeedsSpace(c, val, sep) THEN ReplaceIndent(<<" ">>) ELSE <<>>)
        \o ReplaceIndent(val)

\* lines 171-186: Printer.attr
AttrCall(n, a, deps, default, sep) ==
  IF ~AttrPasses(n, a)
  THEN /\ last' = [node |-> n, attr |-> a, deps |-> deps, default |-> default,
                   sep |-> sep, passed |-> FALSE, text |-> <<>>]
       /\ UNCHANGED <<info, code, emitted>>
  ELSE /\ last' = [node |-> n, attr |-> a, deps |-> deps, default |-> default,
                   sep |-> sep, passed |-> TRUE,
                   text |-> AttrText(code, n, a, deps, default, sep)]
       /\ info' = [info EXCEPT ![n].flags = @ \cup {a}]
       /\ code' = code \o AttrText(code, n, a, deps, default, sep)
       /\ emitted' = [emitted EXCEPT ![n][a] = @ + 1]

PrintIdle ==
  /\ ptree = <<>> /\ pstore = <<>> /\ plive = <<>> /\ stack = <<>> /\ info = <<>>
  /\ code = <<>> /\ result = "idle" /\ returned = <<>> /\ calls = 0
  /\ emitted = <<>> /\ last = NoLast

InitPrint ==
  /\ ptree \in PrintTrees
  /\ \E ann \in [DOMAIN ptree -> Annotations] :
       /\ pstore = [n \in DOMAIN ptree |-> ann[n].store]
       /\ plive = [n \in DOMAIN ptree |-> ann[n].live]
  /\ stack = <<>>
  /\ info = [n \in DOMAIN ptree |-> NoInfo]
  /\ code = <<>>
  /\ result = "idle"
  /\ returned = <<>>
  /\ calls = 0
  /\ emitted = [n \in DOMAIN ptree |-> [a \in AttrNames |-> 0]]
  /\ last = NoLast

CaughtErrors == {"TypeError", "ValueError", "IndexError", "KeyError"}

\* lines 65-66: what the except clause makes of an exception
Raised(e) == IF e \in CaughtErrors THEN "PrintError" ELSE e

Top == stack[Len(stack)]

SetTop(at) == [stack EXCEPT ![Len(stack)].at = at]

Frame(n) == [node |-> n, at |-> "prefix", k |-> 1]

\* lines 218, 61-64: p.visit(tree) creates the root's flag table and dispatches
VisitRoot ==
  /\ result = "idle"
  /\ result' = "running"
  /\ stack' = <<Frame(1)>>
  /\ info' = [info EXCEPT ![1] = FreshInfo]
  /\ UNCHANGED <<ptree, pstore, plive, code, returned, calls, emitted, last>>
  /\ UNCHANGED <<inlineVars, indentVars, fstrVars>>

\* line 74 and lines 61-64: generic_visit visits the next child
VisitChild ==
  /\ result = "running"
  /\ Top.at = "children"
  /\ Top.k <= Len(Kids(ptree, Top.node))
  /\ LET c == Kids(ptree, Top.node)[Top.k]
     IN  /\ stack' = Append([stack EXCEPT ![Len(stack)].k = @ + 1], Frame(c))
         /\ info' = [info EXCEPT ![c] = FreshInfo]
  /\ UNCHANGED <<ptree, pstore, plive, code, result, returned, calls, emitted, last>>
  /\ UNCHANGED <<inlineVars, indentVars, fstrVars>>

\* lines 70, 78: self.prefix(node)
Prefix ==
  /\ result = "running"
  /\ Top.at = "prefix"
  /\ AttrCall(Top.node, "prefix", {}, Some(<<>>), FALSE)
  /\ stack' = SetTop(IF PKind(ptree, Top.node) = "Module" THEN "bom" ELSE "content")
  /\ UNCHANGED <<ptree, pstore, plive, result, returned, calls>>
  /\ UNCHANGED <<inlineVars, indentVars, fstrVars>>

\* lines 71-73: visit_Module emits the byte order mark
Bom ==
  /\ result = "running"
  /\ Top.at = "bom"
  /\ LET bom == fmt_get(pstore, Top.node, "bom")
     IN  code' = IF bom # <<>> THEN add_code(code, bom[1]) ELSE code
  /\ stack' = SetTop("children")
  /\ UNCHANGED <<ptree, pstore, plive, info, result, returned, calls, emitted, last>>
  /\ UNCHANGED <<inlineVars, indentVars, fstrVars>>

\* repr(node.n)
repr(n) == IF n = 1 THEN <<"1">> ELSE <<"2">>

\* lines 79-80: visit_Num emits the stored content, or repr(node.n); a node
\* with neither has no attribute n to read: AttributeError, which the
\* except clause of line 65 does not name
Content ==
  /\ result = "running"
  /\ Top.at = "content"
  /\ LET content == fmt_get(pstore, Top.node, "content")
     IN  IF content # <<>>
         THEN /\ code' = add_code(code, content[1])
              /\ stack' = SetTop("suffix")
              /\ UNCHANGED result
         ELSE IF plive[Top.node] # <<>>
         THEN /\ code' = add_code(code, repr(plive[Top.node][1]))
              /\ stack' = SetTop("suffix")
              /\ UNCHANGED result
         ELSE /\ result' = Raised("AttributeError")
              /\ stack' = <<>>
              /\ UNCHANGED code
  /\ UNCHANGED <<ptree, pstore, plive, info, returned, calls, emitted, last>>
  /\ UNCHANGED <<inlineVars, indentVars, fstrVars>>

\* lines 75, 81: self.suffix(node)
Suffix ==
  /\ result = "running"
  /\ \/ Top.at = "suffix"
     \/ Top.at = "children" /\ Top.k > Len(Kids(ptree, Top.node))
  /\ AttrCall(Top.node, "suffix", {}, Some(<<>>), FALSE)
  /\ stack' = SetTop("return")
  /\ UNCHANGED <<ptree, pstore, plive, result, returned, calls>>
  /\ UNCHANGED <<inlineVars, indentVars, fstrVars>>

\* line 67, and lines 218-219 for the root: the visit returns
Return ==
  /\ result = "running"
  /\ Top.at = "return"
  /\ info' = [info EXCEPT ![Top.node] = NoInfo]
  /\ stack' = SubSeq(stack, 1, Len(stack) - 1)
  /\ IF Len(stack) = 1
     THEN result' = "text" /\ returned' = Some(code)
     ELSE UNCHANGED <<result, returned>>
  /\ UNCHANGED <<ptree, pstore, plive, code, calls, emitted, last>>
  /\ UNCHANGED <<inlineVars, indentVars, fstrVars>>

\* a visitor method of the base visitor requests an attribute of the node it
\* visits or of one of that node's children
Attr ==
  /\ result = "running"
  /\ calls < MaxAttrCalls
  /\ \E n \in {Top.node} \cup Range(Kids(ptree, Top.node)), a \in Requested,
        deps \in DepSets,
        default \in Defaults, sep \in BOOLEAN :
       AttrCall(n, a, deps, default, sep)
  /\ calls' = calls + 1
  /\ UNCHANGED <<ptree, pstore, plive, stack, result, returned>>
  /\ UNCHANGED <<inlineVars, indentVars, fstrVars>>

\* an inconsistent node makes the visitor method raise; lines 63-66 turn the
\* error into PrintError, which no enclosing visit catches; line 67 is not
\* reached in any of the visits in progress
Raise ==
  /\ result = "running"
  /\ \E e \in CaughtErrors : result' = Raised(e)
  /\ stack' = <<>>
  /\ UNCHANGED <<ptree, pstore, plive, info, code, returned, calls, emitted, last>>
  /\ UNCHANGED <<inlineVars, indentVars, fstrVars>>

NextPrint ==
  \/ VisitRoot \/ VisitChild \/ Prefix \/ Bom \/ Content \/ Suffix \/ Return
  \/ Attr \/ Raise

(***************************************************************************)
(* to_str: the default indentation (lines 202-216)                         *)
(***************************************************************************)
\* the bound on the number of nodes walked
MaxWalk == 3

\* the indent_diff a node may store; "" stands for a node that stores none
IndentFrags == {"", "  ", "\t", "    ", "\t\t"}

\* the indentation the printer uses when set_default_indent_diff is not called
BuiltinIndent == "  "

RECURSIVE TupleLess(_, _)
\* the order of Python tuples of integers
TupleLess(a, b) ==
  IF a = <<>> \/ b = <<>> THEN a = <<>> /\ b # <<>>
  ELSE IF Head(a) # Head(b) THEN Head(a) < Head(b)
  ELSE TupleLess(Tail(a), Tail(b))

\* IndentKey preferring the longer fragment
IndentKeyLonger(item) == <<item[2], Len(item[1])>>

\* line 215: the key of a <<fragment, count>> pair
IndentKey(item) == <<item[2], -1 * Len(item[1])>>

\* max(iterable, key): the first item no other item's key exceeds
PyMax(s) ==
  s[CHOOSE i \in DOMAIN s :
      /\ \A j \in DOMAIN s : ~TupleLess(IndentKey(s[i]), IndentKey(s[j]))
      /\ \A j \in 1..(i - 1) : TupleLess(IndentKey(s[j]), IndentKey(s[i]))]

\* line 208: seen_indent_diffs[indent_diff] += 1, a new key going last
Bump(s, frag) ==
  IF \E i \in DOMAIN s : s[i][1] = frag
  THEN [i \in DOMAIN s |-> IF s[i][1] = frag THEN <<frag, s[i][2] + 1>> ELSE s[i]]
  ELSE Append(s, <<frag, 1>>)

IndentIdle ==
  /\ indents = <<>> /\ wi = 0 /\ seen = <<>> /\ ipc = "idle"
  /\ defaultIndent = BuiltinIndent /\ setCalls = 0

InitIndent ==
  /\ indents \in UNION {[1..k -> IndentFrags] : k \in 1..MaxWalk}
  /\ wi = 1
  /\ seen = <<>>
  /\ ipc = "walk"
  /\ defaultIndent = BuiltinIndent
  /\ setCalls = 0

\* lines 205-208: one node of the walk
WalkNode ==
  /\ ipc = "walk"
  /\ wi <= Len(indents)
  /\ seen' = IF indents[wi] # "" THEN Bump(seen, indents[wi]) ELSE seen
  /\ wi' = wi + 1
  /\ UNCHANGED <<indents, ipc, defaultIndent, setCalls>>
  /\ UNCHANGED <<inlineVars, printVars, fstrVars>>

\* lines 210-218: choose the default and go on to print
ChooseIndent ==
  /\ ipc = "walk"
  /\ wi > Len(indents)
  /\ IF seen # <<>>
     THEN /\ defaultIndent' = PyMax(seen)[1]
          /\ setCalls' = setCalls + 1
     ELSE UNCHANGED <<defaultIndent, setCalls>>
  /\ ipc' = "printing"
  /\ UNCHANGED <<indents, wi, seen>>
  /\ UNCHANGED <<inlineVars, printVars, fstrVars>>

NextIndent == WalkNode \/ ChooseIndent

(***************************************************************************)
(* Printer.visit_JoinedStr, for a node with no stored content              *)
(***************************************************************************)
\* the bound on the length of node.values
MaxValues == 3

Str(s)            == [type |-> "Str", s |-> s]
FormattedValue(e) == [type |-> "FormattedValue", s |-> e]

ValueNodes == {Str("a"), Str("b"), FormattedValue("x"), FormattedValue("y")}

Lit(s)         == [t |-> "lit", s |-> s, i |-> 0]
Placeholder(i) == [t |-> "placeholder", s |-> "", i |-> i]
Rendered(e)    == [t |-> "to_str", s |-> e, i |-> 0]
Quote          == [t |-> "quote", s |-> "'", i |-> 0]

\* line 108: the ordinal of the placeholder appended to parts
PlaceholderIndex(ps) == Len(ps)

\* fstring_utils.get_formatted_values
get_formatted_values(vs) == SelectSeq(vs, LAMBDA v : v.type = "FormattedValue")

\* fstring_utils.perform_replacements: the placeholder of ordinal i gives
\* way to vals[i], ordinals counted from 0
perform_replacements(content, vals) ==
  [j \in DOMAIN content |->
     IF content[j].t = "placeholder" /\ content[j].i < Len(vals)
     THEN vals[content[j].i + 1]
     ELSE content[j]]

FStrIdle ==
  /\ values = <<>> /\ fi = 0 /\ parts = <<>> /\ fpc = "idle" /\ output = <<>>

InitFStr ==
  /\ values \in UNION {[1..k -> ValueNodes] : k \in 1..MaxValues}
  /\ fi = 1
  /\ parts = <<>>
  /\ fpc = "loop"
  /\ output = <<>>

\* lines 104-108: one value of the loop
AppendPart ==
  /\ fpc = "loop"
  /\ fi <= Len(values)
  /\ parts' = Append(parts, IF values[fi].type = "Str"
                            THEN Lit(values[fi].s)
                            ELSE Placeholder(PlaceholderIndex(parts)))
  /\ fi' = fi + 1
  /\ UNCHANGED <<values, fpc, output>>
  /\ UNCHANGED <<inlineVars, printVars, indentVars>>

\* lines 109-113: repr of the joined parts, the embedded expressions
\* rendered, the replacements performed
EmitJoinedStr ==
  /\ fpc = "loop"
  /\ fi > Len(values)
  /\ LET content == <<Quote>> \o parts \o <<Quote>>
         vals == [j \in DOMAIN get_formatted_values(values) |->
                    Rendered(get_formatted_values(values)[j].s)]
     IN  output' = perform_replacements(content, vals)
  /\ fpc' = "done"
  /\ UNCHANGED <<values, fi, parts>>
  /\ UNCHANGED <<inlineVars, printVars, indentVars>>

NextFStr == AppendPart \/ EmitJoinedStr

(***************************************************************************)
(* Specifications                                                          *)
(***************************************************************************)
InitInlineCall == InitInline /\ PrintIdle /\ IndentIdle /\ FStrIdle
SpecInline == InitInlineCall /\ [][NextInline]_vars

InitPrintCall == InlineIdle /\ InitPrint /\ IndentIdle /\ FStrIdle
SpecPrint == InitPrintCall /\ [][NextPrint]_vars

InitIndentCall == InlineIdle /\ PrintIdle /\ InitIndent /\ FStrIdle
SpecIndent == InitIndentCall /\ [][NextIndent]_vars

InitFStrCall == InlineIdle /\ PrintIdle /\ IndentIdle /\ InitFStr
SpecFStr == InitFStrCall /\ [][NextFStr]_vars

(***************************************************************************)
(* Properties of inline_name                                               *)
(***************************************************************************)
Label(node) ==
  <<node.kind, node.id, node.ctx, node.n, Len(node.body), Len(node.targets),
    Len(node.value), Len(node.test), Len(node.elts), Len(node.left),
    Len(node.right)>>

\* The structure of the subtree rooted at n, node identities left out.
Shape(t, n) == LET w == Walk(t, n) IN [i \in DOMAIN w |-> Label(t[w[i]])]

Nodes(t, n) == Range(Walk(t, n))

Succeeded == pc = "done" /\ err = NoError

Definition == sc.names[name].definition

\* The node now standing where read r stood in its parent when the call began.
Replacement(r) ==
  LET p == sc.parent[r]
      f == NodeFields(tree0[p].kind)[Min(FieldsWith(tree0, p, r))]
  IN  tree[p][f][Pos(tree0[p][f], r)]

Value0 == tree0[AssignNode].value[1]

\* C1: when inline_name succeeds, every read recorded in the scope table has
\* been replaced, in the same field and position of its parent, by a deep
\* copy of the declaring assignment's value expression; each copy shares no
\* node with the original value expression or with another copy.
C1_ReadsReplacedByCopies ==
  Succeeded =>
    \A i \in DOMAIN Reads :
      LET c == Replacement(Reads[i])
      IN  /\ c \notin DOMAIN tree0
          /\ Shape(tree, c) = Shape(tree0, Value0)
          /\ Nodes(tree, c) \cap Nodes(tree0, Value0) = {}
          /\ \A j \in DOMAIN Reads :
                j # i => Nodes(tree, c) \cap Nodes(tree, Replacement(Reads[j])) = {}

\* C2: the step removing the declaration: with exactly one target the whole
\* assignment leaves the module body and the other statements keep their
\* order; with several targets the statement stays, only the target matching
\* the name goes, and the other targets (in order, at least one) and the
\* value stay as they are.
C2_DeclarationRemoval ==
  [][(pc = "replace" /\ pc' = "done" /\ err' = NoError) =>
       LET a == AssignNode
           m == sc.parent[a]
       IN  IF Len(tree[a].targets) = 1
           THEN /\ tree'[m].body = SelectSeq(tree[m].body, LAMBDA s : s # a)
                /\ Len(tree'[m].body) = Len(tree[m].body) - 1
                /\ \A n \in DOMAIN tree : n # m => tree'[n] = tree[n]
           ELSE /\ a \in Range(tree'[m].body)
                /\ tree'[a].targets =
                     SelectSeq(tree[a].targets, LAMBDA tgt : tgt # Definition)
                /\ Len(tree'[a].targets) = Len(tree[a].targets) - 1
                /\ Len(tree'[a].targets) >= 1
                /\ tree'[a].value = tree[a].value
                /\ \A n \in DOMAIN tree : n # a => tree'[n] = tree[n]
    ]_vars

C2_Witness ==
  /\ Succeeded
  /\ Len(tree0[AssignNode].targets) = 3
  /\ AssignNode \in Range(tree[1].body)
  /\ Len(tree[AssignNode].targets) = 2
  /\ Reads # <<>>

HasStore == \E i \in DOMAIN Reads : tree0[Reads[i]].ctx = "Store"

\* C3: for a name of the scope table the four checks run in order and the
\* first that fails gives the message; no InlineError when all pass.
C3_ChecksInOrder ==
  (pc # "start" /\ name \in DOMAIN sc.names) =>
    LET c1 == KindOf(tree0, Definition) = "Name"
        c2 == c1 /\ KindOf(tree0, AssignNode) = "Assign"
        c3 == c2 /\ KindOf(tree0, sc.parent[AssignNode]) = "Module"
        c4 == c3 /\ ~HasStore
    IN  /\ ~c1 => err = InlineError("is not a constant; it has type",
                                     KindOf(tree0, Definition))
        /\ (c1 /\ ~c2) => err = InlineError("is not declared in an assignment", "")
        /\ (c2 /\ ~c3) => err = InlineError("is not a top-level name", "")
        /\ (c3 /\ ~c4) => err = InlineError("is not a constant", "")
        /\ c4 => err.exc # "InlineError"

\* a declaration inside a block, and reassigned: the third check answers
C3_Witness ==
  /\ pc = "done"
  /\ err = InlineError("is not a top-level name", "")
  /\ HasStore

\* C4: a failed call leaves the tree as it was, no read replaced; a call
\* that has replaced a read does not fail; a successful call leaves neither a
\* read nor the declaration in the module.
C4_AllOrNothing ==
  /\ err # NoError => (tree = tree0 /\ copies = <<>>)
  /\ Succeeded =>
       /\ Len(copies) = Len(Reads)
       /\ \A n \in Range(Reads) \cup {Definition} : n \notin Nodes(tree, 1)

\* a reassigned name with a read that would have been replaced
C4_Witness ==
  /\ pc = "done"
  /\ err = InlineError("is not a constant", "")
  /\ \E i \in DOMAIN Reads : tree0[Reads[i]].ctx = "Load"
  /\ tree = tree0

(***************************************************************************)
(* Properties of to_str                                                    *)
(***************************************************************************)
\* C5: to_str returns the complete text or fails with PrintError: no other
\* kind of error reaches the caller, and a failed call returns nothing.
C5_TextOrPrintError ==
  /\ result \in {"idle", "running", "text", "PrintError"}
  /\ result = "text" <=> returned # <<>>
  /\ returned # <<>> => returned[1] = code

Served == last.node # 0 /\ last.passed

StoredFragment == fmt_get(pstore, last.node, last.attr)

DefaultText == IF last.default = <<>> THEN <<>> ELSE last.default[1]

\* the text of a request, a separating space before it left aside
Emits(text) ==
  \/ last.text = ReplaceIndent(text)
  \/ last.sep /\ last.text = <<" ">> \o ReplaceIndent(text)

\* every dependency's live value equals the snapshot stored for it
AllSnapshotsEqual ==
  \A dep \in last.deps :
    getattr(last.node, dep) = fmt_get(pstore, last.node, dep \o "__src")

\* no dependency that has a snapshot differs from it
NoSnapshotDiffers ==
  \A dep \in last.deps :
    fmt_has(pstore, last.node, dep \o "__src") =>
      getattr(last.node, dep) = fmt_get(pstore, last.node, dep \o "__src")

\* C6 as claimed: attr emits the stored fragment iff one is stored and every
\* dependency's live value equals its snapshot d__src, and the default (or
\* the empty string) in every other case.
C6_FragmentIffSnapshotsEqual ==
  Served =>
    IF StoredFragment # <<>> /\ AllSnapshotsEqual
    THEN Emits(StoredFragment[1])
    ELSE Emits(DefaultText)

\* C6 as amended: a served request emits the stored fragment iff one is
\* stored and no dependency that has a stored snapshot differs from it (a
\* dependency with no snapshot does not invalidate the fragment), and the
\* default (or the empty string) in every other case.
C6_FragmentUnlessSnapshotDiffers ==
  Served =>
    IF StoredFragment # <<>> /\ NoSnapshotDiffers
    THEN Emits(StoredFragment[1])
    ELSE Emits(DefaultText)

\* a stored fragment is dropped for the default: n was edited after the
\* snapshot was taken
C6_Witness ==
  /\ Served
  /\ StoredFragment # <<>>
  /\ last.deps = {"n"}
  /\ fmt_has(pstore, last.node, "n__src")
  /\ getattr(last.node, "n") # fmt_get(pstore, last.node, "n__src")
  /\ last.default = Some(<<"d">>)
  /\ last.text = <<"d">>

\* C8: during one to_str, attr appends text at most once for every node and
\* attribute name.
C8_EmittedAtMostOnce ==
  \A n \in DOMAIN emitted : \A a \in AttrNames : emitted[n][a] <= 1

\* a request for an attribute already emitted for the node being visited
C8_Witness ==
  /\ last.node # 0
  /\ ~last.passed
  /\ info[last.node].has
  /\ last.attr \in info[last.node].flags
  /\ emitted[last.node][last.attr] = 1
  /\ last.default # <<>>

\* C9: when to_str finishes, with text or with PrintError, no node carries
\* a flag table.
C9_NoFlagTableLeft ==
  result \in {"text", "PrintError"} => \A n \in DOMAIN info : ~info[n].has

(***************************************************************************)
(* Properties of the default indentation                                   *)
(***************************************************************************)
Count(frag) == Cardinality({i \in DOMAIN indents : indents[i] = frag})

Used == {frag \in Range(indents) : frag # ""}

FirstAt(frag) == Pos(indents, frag)

\* C7: the default indentation has the greatest count, and the smallest
\* length among the fragments of that count; it is a function of the tree
\* (of the fragments tied in count and length, the first the walk meets);
\* with no fragment stored set_default_indent_diff is not called.
C7_MostFrequentThenShortest ==
  ipc = "printing" =>
    IF Used = {}
    THEN setCalls = 0 /\ defaultIndent = BuiltinIndent
    ELSE /\ setCalls = 1
         /\ defaultIndent \in Used
         /\ \A frag \in Used :
              /\ Count(frag) <= Count(defaultIndent)
              /\ Count(frag) = Count(defaultIndent) =>
                   Len(defaultIndent) <= Len(frag)
              /\ (Count(frag) = Count(defaultIndent)
                    /\ Len(frag) = Len(defaultIndent)) =>
                   FirstAt(defaultIndent) <= FirstAt(frag)

\* two fragments tie in count and the shorter one is chosen
C7_Witness ==
  /\ ipc = "printing"
  /\ setCalls = 1
  /\ \E frag \in Used :
       /\ Count(frag) = Count(defaultIndent)
       /\ Len(frag) > Len(defaultIndent)

(***************************************************************************)
(* Properties of visit_JoinedStr                                           *)
(***************************************************************************)
\* the number of embedded expressions among the first j values
Embedded(j) ==
  Cardinality({i \in 1..j : values[i].type = "FormattedValue"})

\* C10: the synthesized template holds the literal segments in order and one
\* placeholder per embedded expression, the k-th expression (counted from 0
\* among the embedded expressions) getting ordinal k, so that each rendering
\* lands where its expression stands among the literal segments.
C10_PlaceholderPerExpression ==
  fpc = "done" =>
    /\ Len(parts) = Len(values)
    /\ \A j \in DOMAIN values :
         IF values[j].type = "Str"
         THEN parts[j] = Lit(values[j].s) /\ output[j + 1] = Lit(values[j].s)
         ELSE /\ parts[j] = Placeholder(Embedded(j) - 1)
              /\ output[j + 1] = Rendered(values[j].s)

====
